---- MODULE Spec2Model ----
(***************************************************************************)
(* Session registry, admission/serialization, idle janitor and recycle     *)
(* policy of src/modify_v1.py (SessionManager / UserSession and the        *)
(* endpoints that drive them).                                             *)
(*                                                                         *)
(* The program is a single asyncio event loop: the code between two        *)
(* suspension points (an `await` that really waits: browser I/O, a lock    *)
(* that is taken, a sleep) runs atomically.  Every action below is one     *)
(* such atomic stretch of one coroutine; the pc of a task names the await  *)
(* it is suspended at.                                                     *)
(***************************************************************************)
EXTENDS Integers, Sequences, FiniteSets, TLC

\* ---------------------------------------------------------------- bounds
\* Caps of the specification of requests, janitor and closes (Spec):
\* concurrently existing asyncio tasks, UserSession objects ever constructed,
\* FBScrape objects ever constructed, last value of the monotonic clock,
\* largest _scrape_job_counter of one session.
MaxTasks == 2
MaxSess == 3
MaxFb == 3
MaxTime == 3
MaxCount == 2
\* The same caps for the specification of the recycle policy,
PolMaxTasks == 1
PolMaxCount == 9
PolMaxFb == 10
\* of two raw identities with one safe name,
UsrMaxTasks == 3
UsrMaxSess == 2
UsrMaxFb == 2
UsrMaxCount == 2
\* of the sinks,
SinkMaxTasks == 2
SinkMaxSess == 2
SinkMaxFb == 2
SinkMaxCount == 2
SinkMaxTime == 4
\* and of the janitor over two identities.
JanMaxTasks == 2
JanMaxSess == 2
JanMaxFb == 2
JanMaxCount == 2
JanMaxTime == 3
\* the jobs of every endpoint on one session, with the hit-count sink
JobMaxTasks == 2
JobMaxSess == 1
JobMaxFb == 3
JobMaxCount == 3
JobMaxTime == 3
\* webhook submissions of one identity: two under way at a time
AsyMaxTasks == 2
AsyMaxSess == 2
AsyMaxFb == 2
AsyMaxCount == 2
\* scrape requests against explicit closes and deletes, answers on record
ClsMaxTasks == 2
ClsMaxSess == 2
ClsMaxFb == 2
ClsMaxCount == 2
\* one identity under a fairly scheduled janitor
FairMaxTasks == 2
FairMaxSess == 2
FairMaxFb == 2
FairMaxCount == 2
FairMaxTime == 3
\* webhook jobs of two identities at shutdown
StopMaxTasks == 2
StopMaxSess == 3
StopMaxFb == 2
StopMaxCount == 2
OrdMaxTasks == 3
OrdMaxSess == 2
OrdMaxFb == 2
OrdMaxCount == 2
GateMaxTasks == 2
GateMaxSess == 1
GateMaxFb == 1
GateMaxCount == 2
GateMaxTime == 2
CanMaxTasks == 2
CanMaxSess == 2
CanMaxFb == 2
CanMaxCount == 2
CanMaxTime == 3
MaxGroups == 3
OpnMaxTasks == 2
OpnMaxSess == 2
OpnMaxFb == 2
OpnMaxCount == 2
OpnMaxTime == 3
WrmMaxTasks == 2
WrmMaxSess == 2
WrmMaxFb == 2
WrmMaxCount == 2
WrmMaxTime == 3

\* ------------------------------------------------- configuration (env vars)
\* Time is counted in model ticks; the values keep the order
\* SINK_IDLE_SEC < API_IDLE_TIMEOUT_SEC of the defaults (1500 < 1800).
API_IDLE_TIMEOUT_SEC     == 2
SINK_IDLE_SEC            == 1
SINK_COOLDOWN_SEC        == 2
SINK_HITS_BEFORE_TRIGGER == 2
\* a value of SINK_IDLE_SEC / SINK_HITS_BEFORE_TRIGGER no run of the model
\* reaches: the deployment that never triggers a sink
SinkOff                  == 99

None == 0

\* raw identities (username_full) as character sequences
Users == { <<"a">>, <<"a", "@", "x">> }

\* values RECHROME_POLICY can have after .strip().lower(); "always" stands
\* for any unrecognized string
Policies == {"never", "before_each", "every_n", "always"}
EveryNs  == {-1, 0, 1, 2, 3}

VARIABLES
  sessions,   \* SessionManager.sessions: dict in insertion order, <<[key, sid]>>
  sess,       \* heap of UserSession objects, indexed by sid
  fbs,        \* heap of FBScrape objects, indexed by handle id
  now,        \* time.monotonic()
  tasks,      \* asyncio tasks: request handlers and create_task()ed coroutines
  jan,        \* the janitor_loop task
  env,        \* the configuration: module globals and os.getenv values
  cap,        \* the caps of the specification being run
  hist,       \* history per session: jobs counted and the jobs that recycled
  wh          \* history per identity: the answers its requests were given

vars == <<sessions, sess, fbs, now, tasks, jan, env, cap, hist, wh>>

\* ---------------------------------------------------------------- helpers
AtIndex(u) == CHOOSE i \in 1..Len(u) : u[i] = "@" /\ \A j \in 1..(i-1) : u[j] # "@"

\* username_full.split("@", 1)[0] if "@" in username_full else username_full
to_safe_name(u) ==
  IF \E i \in 1..Len(u) : u[i] = "@" THEN SubSeq(u, 1, AtIndex(u) - 1) ELSE u

\* dict.get(key): the sid mapped to key, or None
Get(R, k) ==
  IF \E i \in 1..Len(R) : R[i].key = k
  THEN R[CHOOSE i \in 1..Len(R) : R[i].key = k].sid
  ELSE None

\* dict[key] = sid: an existing key keeps its place, a new key goes last
Put(R, k, s) ==
  IF \E i \in 1..Len(R) : R[i].key = k
  THEN [i \in 1..Len(R) |-> IF R[i].key = k THEN [key |-> k, sid |-> s] ELSE R[i]]
  ELSE Append(R, [key |-> k, sid |-> s])

\* a pop that removes nothing
Pop_nothing(R, k) == R

\* dict.pop(key, None)
Pop(R, k) == SelectSeq(R, LAMBDA e : e.key # k)

\* a constructor that hands out the session with its lock taken
UserSession_locked(u, t) ==
  [username_full |-> u, fb |-> None, locked |-> TRUE, waiters |-> <<>>,
   last_used |-> t, closed |-> FALSE,
   _scrape_job_counter |-> 0, _sink_hits |-> 0, _webhook_queue_len |-> 0]

\* UserSession.__init__
UserSession(u, t) ==
  [username_full |-> u, fb |-> None, locked |-> FALSE, waiters |-> <<>>,
   last_used |-> t, closed |-> FALSE,
   _scrape_job_counter |-> 0, _sink_hits |-> 0, _webhook_queue_len |-> 0]

\* FBScrape.__init__: constructed, browser not started yet.  _page: whether
\* the page shows google.com ("google") or anything else, no page included
FBScrape == [st |-> "new", _sink_running |-> FALSE, _sink_last_run |-> 0,
             _page |-> "other"]

\* q: the session the webhook endpoint captured (`sess` of _schedule);
\* groups, data: of a run_task call, the groups still to do and the rows
\* collected so far;
\* cb: the calls of _post_webhook the job has made; ok: the result it posts
IdleTask == [kind |-> "none", pc |-> "idle", key |-> <<>>, s |-> None,
             h |-> None, pre |-> None, need |-> FALSE, k |-> 0,
             force |-> FALSE, todo |-> <<>>, q |-> None, cb |-> 0, ok |-> FALSE,
             groups |-> <<>>, data |-> <<>>]

\* n: scrape jobs started; rec: those that recycled; spared: janitor passes
\* that left the session alone; fg: jobs admitted through run_for_user;
\* done: those of them that returned or raised; warm: when the last sink
\* run on the session completed (0: none did)
NoHist == [n |-> 0, rec |-> <<>>, spared |-> {}, fg |-> 0, done |-> 0,
           warm |-> 0]

\* What is on record of the requests of one identity.  Of its last webhook
\* submission: pos and status as answered, prev the position answered to the
\* one before, ahead the webhook jobs of the identity not yet finished when
\* it came, alone whether no job of the identity was under way, gap whether
\* a job of the identity finished since the submission before.  fin: a job
\* finished since the last submission.  cbs: for the finished webhook jobs,
\* how many _post_webhook calls each made and the result it posted last.
\* busy: a close or delete was refused.  noop: a close found no session
\* after one had been made and removed.
NoLedger == [pos |-> 0, prev |-> 0, status |-> "none", ahead |-> 0,
             alone |-> FALSE, gap |-> FALSE, fin |-> FALSE, cbs |-> {},
             busy |-> FALSE, noop |-> FALSE]

\* the ledgers are kept for the identities in their domain only
Noted(W, u) == u \in DOMAIN W

\* A context is the part of the state one atomic stretch works on:
\* R registry, S session heap, F handle heap, H history, T the running task,
\* N coroutines handed to asyncio.create_task().
Ctx(t) == [R |-> sessions, S |-> sess, F |-> fbs, H |-> hist, T |-> tasks[t],
           N |-> <<>>, id |-> t, W |-> wh]

\* ------------------------------------------------------------ asyncio.Lock
\* `async with sess.lock` takes the lock without suspending only when it is
\* free and nobody waits; lock.locked() is the bare flag.
LockFree_barging(x) == ~x.locked

LockFree(x) == ~x.locked /\ x.waiters = <<>>

\* Lock.release(): clears the flag; the first waiter is woken and sets the
\* flag again when it next runs (in between locked() is False).
Release(x) == [x EXCEPT !.locked = FALSE]

\* UserSession.touch
touch(x, t) == [x EXCEPT !.last_used = t]

\* ------------------------------------------------------- SessionManager
\* get_or_create: the context with the session for key u resolved; T.s is it
get_or_create(c, u) ==
  LET sid == Get(c.R, u) IN
  IF sid = None \/ c.S[sid].closed
  THEN LET new == Len(c.S) + 1 IN
       [c EXCEPT !.S = Append(c.S, UserSession(u, now)),
                 !.H = Append(c.H, NoHist),
                 !.R = Put(c.R, u, new),
                 !.T.s = new, !.T.key = u]
  ELSE [c EXCEPT !.T.s = sid, !.T.key = u]

Max(a, b) == IF a >= b THEN a ELSE b

\* run_for_user / run_for_sys, after the job body returned or raised:
\* `finally: sess.touch()` (run_for_user only), the lock is released, the
\* task ends.  For a webhook job _schedule's finally then lowers
\* _webhook_queue_len of the session the endpoint captured.
Finish(c) ==
  LET sid  == c.T.s
      u    == c.T.key
      user == c.T.kind # "sink"
      x0   == c.S[sid]
      x1   == IF user THEN touch(x0, now) ELSE x0
      c1   == [c EXCEPT !.S[sid] = Release(x1),
                        !.H[sid].done = IF user THEN @ + 1 ELSE @]
      c2   == IF c.T.kind = "webhook"
              THEN [c1 EXCEPT !.S[c.T.q]._webhook_queue_len = Max(0, @ - 1)]
              ELSE c1
      c3   == IF Noted(c.W, u)
              THEN [c2 EXCEPT !.W[u].fin = @ \/ c.W[u].pos # 0,
                              !.W[u].cbs = IF c.T.kind = "webhook"
                                           THEN @ \cup {<<c.T.cb, c.T.ok>>}
                                           ELSE @]
              ELSE c2
  IN [c3 EXCEPT !.T = IdleTask]

\* _post_webhook(webhook_url, payload) is called and awaited; ok tells a
\* success payload from a failure payload
post_webhook(c, ok) ==
  [c EXCEPT !.T.cb = @ + 1, !.T.ok = ok, !.T.pc = "wh_post"]

\* a _bg_job whose errors nothing catches
Raise_unposted(c) == Finish(c)

\* the job body raised: _bg_job's `except Exception` posts the failure, the
\* other jobs raise through run_for_user
Raise(c) == IF c.T.kind = "webhook" THEN post_webhook(c, FALSE) ELSE Finish(c)

\* randomtask from `async with lock` (fb._sink_lock) to its next suspension:
\* the running flag, then the cooldown check
randomtask_locked(c) ==
  LET h        == c.T.h
      last_run == c.F[h]._sink_last_run
      c1       == [c EXCEPT !.F[h]._sink_running = TRUE]
  IN IF last_run # 0 /\ (now - last_run) < env.SINK_COOLDOWN_SEC
     THEN [c1 EXCEPT !.T.pc = "sink_fin", !.T.ok = FALSE]  \* "cooldown"; finally: await goto
     ELSE [c1 EXCEPT !.T.pc = "sink_run", !.T.ok = TRUE]   \* await goto / agent run

\* randomtask(fb) up to its first suspension; fb = None raises at once
randomtask(c, h) ==
  IF h = None THEN Finish(c)
  ELSE IF c.F[h].st \in {"new", "failed"}
       THEN [c EXCEPT !.T.h = h, !.T.pc = "sink_init"]      \* await fb._lazy_init()
       ELSE randomtask_locked([c EXCEPT !.T.h = h])

\* _sink_job of the sink coroutines: randomtask(sess_in.fb)
sink_job(c) == randomtask(c, c.S[c.T.s].fb)

\* what a job does with the handle ensure_fb returned, up to the next
\* suspension: PostScrape.is_logged_in / run_task, PostScrape.ensure_login,
\* or randomtask(fb)
Work(c) ==
  IF c.T.kind = "random" THEN randomtask(c, c.T.h)
  ELSE IF c.T.kind = "create" THEN [c EXCEPT !.T.pc = "login"]
  ELSE [c EXCEPT !.T.pc = "scrape"]

\* UserSession.ensure_fb up to its first suspension
ensure_fb(c) ==
  LET sid == c.T.s IN
  IF c.S[sid].closed THEN Raise(c)                        \* RuntimeError
  ELSE IF c.S[sid].fb = None
       THEN LET h == Len(c.F) + 1 IN                      \* await _lazy_init()
            [c EXCEPT !.F = Append(c.F, FBScrape), !.S[sid].fb = h,
                      !.T.h = h, !.T.pc = "ef_init"]
       ELSE Work([c EXCEPT !.T.h = c.S[sid].fb])

\* UserSession.restart_browser up to its first suspension; a raise is caught
\* by the job ("skip restart") and the job goes on to ensure_fb
restart_browser(c) ==
  LET sid == c.T.s IN
  IF c.S[sid].closed THEN ensure_fb(c)                    \* RuntimeError, caught
  ELSE IF c.S[sid].fb # None
       THEN [c EXCEPT !.T.h = c.S[sid].fb, !.T.pc = "rb_close"]  \* await fb.close()
       ELSE LET h == Len(c.F) + 1 IN                      \* await _lazy_init()
            [c EXCEPT !.F = Append(c.F, FBScrape), !.S[sid].fb = h,
                      !.T.h = h, !.T.pc = "rb_init"]

\* a recycle decision that counts from zero: the counter read before its
\* increment took effect
need_restart_stale(cnt) ==
  \/ env.RECHROME_POLICY = "before_each"
  \/ /\ env.RECHROME_POLICY = "every_n"
     /\ env.RECHROME_EVERY_N > 0
     /\ (cnt - 1) % env.RECHROME_EVERY_N = 0

\* a recycle decision that tests `!= "never"` and so takes any other policy
\* string, and every_n with a bad N, for before_each
need_restart_lax(cnt) ==
  /\ env.RECHROME_POLICY # "never"
  /\ (env.RECHROME_POLICY = "every_n" /\ env.RECHROME_EVERY_N > 0)
       => cnt % env.RECHROME_EVERY_N = 0

\* the recycle decision of scrape_posts._job for job number cnt
need_restart(cnt) ==
  \/ env.RECHROME_POLICY = "before_each"
  \/ /\ env.RECHROME_POLICY = "every_n"
     /\ env.RECHROME_EVERY_N > 0
     /\ cnt % env.RECHROME_EVERY_N = 0

\* scrape_posts._job from its start to its first suspension
scrape_job(c) ==
  LET sid == c.T.s
      cnt == c.S[sid]._scrape_job_counter + 1
      k   == c.H[sid].n + 1
      nr  == need_restart(cnt)
      c1  == [c EXCEPT !.S[sid]._scrape_job_counter = cnt,
                       !.H[sid].n = k,
                       !.H[sid].rec = IF nr THEN Append(@, k) ELSE @,
                       !.T.k = k, !.T.need = nr, !.T.pre = c.S[sid].fb]
  IN IF nr THEN restart_browser(c1) ELSE ensure_fb(c1)

\* the coroutine _run_sink_for_user / _run_sink_bg given to asyncio.create_task
SinkTask(u) == [IdleTask EXCEPT !.kind = "sink", !.pc = "start", !.key = u]

\* the hit-count trigger at the end of a successful scrape_posts._job
sink_trigger(c) ==
  LET sid  == c.T.s
      hits == c.S[sid]._sink_hits + 1
  IN IF hits >= env.SINK_HITS_BEFORE_TRIGGER /\ c.S[sid].fb # None
     THEN [c EXCEPT !.S[sid]._sink_hits = 0, !.N = Append(@, SinkTask(c.T.key))]
     ELSE [c EXCEPT !.S[sid]._sink_hits = hits]

\* the job body run under the session lock: _sink_job, the _job of
\* scrape_posts and _bg_job of scrape_posts_webhook, or the _job of
\* create_profile and of random_scrape, which start with ensure_fb
Body(c) ==
  IF c.T.kind = "sink" THEN sink_job(c)
  ELSE IF c.T.kind \in {"scrape", "webhook"} THEN scrape_job(c)
  ELSE ensure_fb([c EXCEPT !.T.pre = c.S[c.T.s].fb])

\* `async with sess.lock:` entered; run_for_user touches, run_for_sys does not
Locked(c) ==
  LET sid  == c.T.s
      user == c.T.kind # "sink"
      x    == [c.S[sid] EXCEPT !.locked = TRUE]
  IN Body([c EXCEPT !.S[sid] = IF user THEN touch(x, now) ELSE x,
                    !.H[sid].fg = IF user THEN @ + 1 ELSE @])

\* run_for_user / run_for_sys after get_or_create
Admit(c) ==
  LET sid == c.T.s IN
  IF LockFree(c.S[sid]) THEN Locked(c)
  ELSE [c EXCEPT !.S[sid].waiters = Append(@, c.id), !.T.pc = "wait"]

\* ------------------------------------------------------------ bookkeeping
FreeSlots(ts) == {i \in DOMAIN ts : ts[i].pc = "idle"}

\* a new request or coroutine gets the first free task slot
FirstFree(ts, t) == t \in FreeSlots(ts) /\ \A j \in FreeSlots(ts) : t <= j

RECURSIVE Spawn(_, _)
Spawn(ts, new) ==
  IF new = <<>> THEN ts
  ELSE LET i == CHOOSE i \in FreeSlots(ts) : \A j \in FreeSlots(ts) : i <= j
       IN Spawn([ts EXCEPT ![i] = Head(new)], Tail(new))

InCaps(c) ==
  /\ Len(c.S) <= cap.sess
  /\ Len(c.F) <= cap.fb
  /\ \A i \in 1..Len(c.S) : c.S[i]._scrape_job_counter <= cap.count
  /\ \A i \in 1..Len(c.H) : c.H[i].fg <= cap.count

\* An object no name refers to any more is freed by the interpreter: a
\* UserSession that is in no registry entry and that no coroutine holds, and
\* the Python side of an FBScrape no session or coroutine holds.  What the
\* claims read of a freed object stays on record: closed and fb of a session,
\* the browser state st of a handle.
Freed(x) == [x EXCEPT !.last_used = 0, !._scrape_job_counter = 0,
                      !._sink_hits = 0, !._webhook_queue_len = 0]

Holds(T, sid) ==
  \/ T.s = sid
  \/ T.q = sid
  \/ T.kind # "janitor" /\ \E i \in 1..Len(T.todo) : T.todo[i].sid = sid

Collect(R, S, F, H, ts, J) ==
  LET liveS == {sid \in 1..Len(S) :
                  \/ \E i \in 1..Len(R) : R[i].sid = sid
                  \/ \E t \in DOMAIN ts : Holds(ts[t], sid)
                  \/ Holds(J, sid)}
      liveF == {h \in 1..Len(F) :
                  \/ \E sid \in liveS : S[sid].fb = h
                  \/ \E t \in DOMAIN ts : ts[t].h = h
                  \/ J.h = h}
  IN [S |-> [sid \in 1..Len(S) |-> IF sid \in liveS THEN S[sid] ELSE Freed(S[sid])],
      H |-> [sid \in 1..Len(S) |-> IF sid \in liveS THEN H[sid] ELSE NoHist],
      F |-> [h \in 1..Len(F) |->
               IF h \in liveF THEN F[h] ELSE [FBScrape EXCEPT !.st = F[h].st]]]

\* the end of an atomic stretch of task t
Commit(c) ==
  LET ts == [tasks EXCEPT ![c.id] = c.T]
      g  == Collect(c.R, c.S, c.F, c.H, Spawn(ts, c.N), jan)
  IN /\ InCaps(c)
     /\ Len(c.N) <= Cardinality(FreeSlots(ts))
     /\ sessions' = c.R
     /\ sess' = g.S
     /\ fbs' = g.F
     /\ hist' = g.H
     /\ wh' = c.W
     /\ tasks' = Spawn(ts, c.N)

\* ------------------------------------------------------------ job actions
\* POST /scrape-posts for raw identity u: run_for_user(username_full, _job)
Submit(t, u) ==
  /\ FirstFree(tasks, t)
  /\ Commit(Admit(get_or_create([Ctx(t) EXCEPT !.T.kind = "scrape"], u)))
  /\ UNCHANGED <<now, jan, env, cap>>

\* POST /create-profile for raw identity u: run_for_user(username_full, _job)
create_profile(t, u) ==
  /\ FirstFree(tasks, t)
  /\ Commit(Admit(get_or_create([Ctx(t) EXCEPT !.T.kind = "create"], u)))
  /\ UNCHANGED <<now, jan, env, cap>>

\* POST /random-scrape for raw identity u: run_for_user(username_full, _job)
random_scrape(t, u) ==
  /\ FirstFree(tasks, t)
  /\ Commit(Admit(get_or_create([Ctx(t) EXCEPT !.T.kind = "random"], u)))
  /\ UNCHANGED <<now, jan, env, cap>>

\* the coroutine _schedule given to asyncio.create_task by the webhook
\* endpoint; q is the session its closure holds
WebhookTask(u, sid) ==
  [IdleTask EXCEPT !.kind = "webhook", !.pc = "start", !.key = u, !.q = sid]

JobKinds == {"scrape", "webhook", "create", "random", "sink"}

\* POST /scrape-posts-webhook for raw identity u, the whole handler: the
\* queue position, _webhook_queue_len += 1, create_task(_schedule()), the
\* answer
scrape_posts_webhook(t, u) ==
  LET c         == get_or_create(Ctx(t), u)
      sid       == c.T.s
      running   == c.S[sid].locked
      queue_len == c.S[sid]._webhook_queue_len
      position  == queue_len + (IF running THEN 1 ELSE 0) + 1
      status    == IF position > 1 THEN "queued" ELSE "running"
      ahead     == Cardinality({i \in DOMAIN tasks :
                     tasks[i].kind = "webhook" /\ tasks[i].key = u})
      alone     == \A i \in DOMAIN tasks :
                     tasks[i].kind \in JobKinds => tasks[i].key # u
      noted     == IF Noted(wh, u)
                   THEN [wh EXCEPT ![u].prev = wh[u].pos, ![u].pos = position,
                                   ![u].status = status, ![u].ahead = ahead,
                                   ![u].alone = alone, ![u].gap = wh[u].fin,
                                   ![u].fin = FALSE]
                   ELSE wh
  IN /\ FirstFree(tasks, t)
     /\ Commit([c EXCEPT !.S[sid]._webhook_queue_len = queue_len + 1,
                         !.T = IdleTask, !.N = <<WebhookTask(u, sid)>>,
                         !.W = noted])
     /\ UNCHANGED <<now, jan, env, cap>>

\* the _schedule coroutine starts: run_for_user(username_full, _bg_job)
WebhookStart(t) ==
  /\ tasks[t].kind = "webhook" /\ tasks[t].pc = "start"
  /\ Commit(Admit(get_or_create(Ctx(t), tasks[t].key)))
  /\ UNCHANGED <<now, jan, env, cap>>

\* a create_task()ed sink coroutine starts: run_for_sys(uname, _sink_job)
SinkStart(t) ==
  /\ tasks[t].kind = "sink" /\ tasks[t].pc = "start"
  /\ Commit(Admit(get_or_create(Ctx(t), tasks[t].key)))
  /\ UNCHANGED <<now, jan, env, cap>>

\* a waiter woken by Lock.release() runs again and takes the lock
Resume(t) ==
  LET sid == tasks[t].s IN
  /\ tasks[t].pc = "wait"
  /\ ~sess[sid].locked /\ Head(sess[sid].waiters) = t
  /\ Commit(Locked([Ctx(t) EXCEPT !.S[sid].waiters = Tail(@)]))
  /\ UNCHANGED <<now, jan, env, cap>>

\* restart_browser: `await self.fb.close()` returned (a raise is only warned);
\* self.fb = None; self.fb = FBScrape(...); await self.fb._lazy_init()
RbCloseDone(t) ==
  LET c   == Ctx(t)
      sid == c.T.s
      h   == Len(c.F) + 1
  IN /\ tasks[t].pc = "rb_close"
     /\ Commit([c EXCEPT !.F = Append([c.F EXCEPT ![c.T.h].st = "closed", ![c.T.h]._page = "other"], FBScrape),
                         !.S[sid].fb = h, !.T.h = h, !.T.pc = "rb_init"])
     /\ UNCHANGED <<now, jan, env, cap>>

\* restart_browser: _lazy_init returned (ok) or raised; the job catches the
\* raise and in both cases goes on to ensure_fb
RbInitDone(t, ok) ==
  LET c == Ctx(t) IN
  /\ tasks[t].pc = "rb_init"
  /\ Commit(ensure_fb([c EXCEPT !.F[c.T.h].st = IF ok THEN "open" ELSE "failed"]))
  /\ UNCHANGED <<now, jan, env, cap>>

\* ensure_fb: _lazy_init returned, `return self.fb`; or raised, the job ends
EfInitDone(t, ok) ==
  LET c   == Ctx(t)
      sid == c.T.s
  IN /\ tasks[t].pc = "ef_init"
     /\ Commit(IF ok
               THEN Work([c EXCEPT !.F[c.T.h].st = "open", !.T.h = c.S[sid].fb])
               ELSE Raise([c EXCEPT !.F[c.T.h].st = "failed"]))
     /\ UNCHANGED <<now, jan, env, cap>>

\* the browser as a job that returns normally leaves it: is_logged_in and
\* run_task first retry _lazy_init on a handle whose start failed; run_task
\* and ensure_login leave the page on facebook.com
Used(c) ==
  LET h == c.T.h IN
  [c EXCEPT !.F[h].st = IF @ \in {"new", "failed"} THEN "open" ELSE @,
            !.F[h]._page = IF c.F[h].st = "closed" THEN @ ELSE "other"]

\* a scrape job that awaits the sink job it has just scheduled
ScrapeDone_awaiting(t, ok) ==
  LET c == Ctx(t)
      h == c.T.h
      d == sink_trigger(Used(c))
  IN /\ tasks[t].pc = "scrape"
     /\ ok => h # None
     /\ Commit(IF c.T.kind = "webhook"
               THEN post_webhook(IF ok THEN Used(c) ELSE c, ok)
               ELSE IF ok THEN (IF d.N # <<>> THEN d ELSE Finish(d)) ELSE Finish(c))
     /\ UNCHANGED <<now, jan, env, cap>>

\* the scrape itself (PostScrape.is_logged_in, run_task) returned (ok) or
\* the job raised / was not logged in.  A browser that is closed under
\* run_task does not make it raise: the error of each group is recorded and
\* the loop goes on.  scrape_posts._job then counts the sink hit and
\* returns; _bg_job posts the outcome to the webhook.
ScrapeDone(t, ok) ==
  LET c == Ctx(t)
      h == c.T.h
  IN /\ tasks[t].pc = "scrape"
     /\ ok => h # None
     /\ Commit(IF c.T.kind = "webhook"
               THEN post_webhook(IF ok THEN Used(c) ELSE c, ok)
               ELSE IF ok THEN Finish(sink_trigger(Used(c))) ELSE Finish(c))
     /\ UNCHANGED <<now, jan, env, cap>>

\* _bg_job: the awaited _post_webhook returned (it never raises); after a
\* success payload the sink hit is counted; run_for_user and _schedule end
WebhookPosted(t) ==
  LET c == Ctx(t) IN
  /\ tasks[t].pc = "wh_post"
  /\ Commit(Finish(IF c.T.ok THEN sink_trigger(c) ELSE c))
  /\ UNCHANGED <<now, jan, env, cap>>

\* create_profile._job: ensure_login returned with login_state set (ok), or
\* it raised / login_state is False (401)
LoginDone(t, ok) ==
  LET c == Ctx(t) IN
  /\ tasks[t].pc = "login"
  /\ ok => c.T.h # None
  /\ Commit(Finish(IF ok THEN Used(c) ELSE c))
  /\ UNCHANGED <<now, jan, env, cap>>

\* the same step under an admission that takes the lock without a context
\* manager: the raise ends the coroutine with the lock still held
SinkInitDone_held(t, ok) ==
  LET c == Ctx(t) IN
  /\ tasks[t].pc = "sink_init"
  /\ Commit(IF ok
            THEN randomtask_locked([c EXCEPT !.F[c.T.h].st = "open"])
            ELSE [c EXCEPT !.T = IdleTask])
  /\ UNCHANGED <<now, jan, env, cap>>

\* randomtask: the retried _lazy_init returned or raised (before the try)
SinkInitDone(t, ok) ==
  LET c == Ctx(t) IN
  /\ tasks[t].pc = "sink_init"
  /\ Commit(IF ok
            THEN randomtask_locked([c EXCEPT !.F[c.T.h].st = "open"])
            ELSE Finish(c))
  /\ UNCHANGED <<now, jan, env, cap>>

\* randomtask: the agent run returned (ok: _sink_last_run is set) or an
\* error was caught; the finally block then awaits the goto
SinkRunDone(t, ok) ==
  LET c == Ctx(t)
      h == c.T.h
  IN /\ tasks[t].pc = "sink_run"
     /\ ok => fbs[h].st = "open"
     /\ Commit([c EXCEPT !.F[h]._sink_last_run = IF ok THEN now ELSE @,
                         !.F[h]._page = IF ok THEN "other" ELSE @,
                         !.H[c.T.s].warm = IF ok THEN now ELSE @,
                         !.T.pc = "sink_fin"])
     /\ UNCHANGED <<now, jan, env, cap>>

\* randomtask: the finally block ends: the goto to google.com returned (on
\* a browser that is down it raised and the raise was passed over),
\* _sink_running = False; run_for_sys returns
SinkFinDone(t) ==
  LET c == Ctx(t)
      h == c.T.h
  IN
  /\ tasks[t].pc = "sink_fin"
  /\ Commit(Finish([c EXCEPT !.F[h]._sink_running = FALSE,
                             !.F[h]._page = IF c.F[h].st = "open"
                                            THEN "google" ELSE @]))
  /\ UNCHANGED <<now, jan, env, cap>>

\* ---------------------------------------------------------------- closing
\* UserSession.close, the part after `await self.fb.close()`:
\* finally: self.fb = None; self.closed = True
closed_now(c, sid) == [c EXCEPT !.S[sid].fb = None, !.S[sid].closed = TRUE]

\* `await sess.close(); manager.sessions.pop(key, None)` for each target of
\* close_session / delete_profile, up to the next suspension
RECURSIVE close_targets(_)
close_targets(c) ==
  IF c.T.todo = <<>> THEN [c EXCEPT !.T = IdleTask]
  ELSE LET e    == Head(c.T.todo)
           x    == c.S[e.sid]
           rest == [c EXCEPT !.T.todo = Tail(@)]
       IN IF x.closed
          THEN close_targets([rest EXCEPT !.R = Pop(@, e.key)])
          ELSE IF x.fb # None
               THEN [rest EXCEPT !.T.s = e.sid, !.T.h = x.fb, !.T.key = e.key,
                                 !.T.pc = "cl_close"]
               ELSE close_targets([closed_now(rest, e.sid) EXCEPT !.R = Pop(@, e.key)])

\* endpoints that never find a session busy
busy_never(S, targets) == FALSE

\* the busy test of close_session and delete_profile: sess.lock.locked()
\* of a target
busy(S, targets) == \E i \in 1..Len(targets) : S[targets[i].sid].locked

\* the request was answered 400 and did nothing else
Refused(c, u) ==
  IF Noted(c.W, u) THEN [c EXCEPT !.W[u].busy = TRUE] ELSE c

\* close_session found no session: {"ok": True, ... "not found"}
NotFound(c, u) ==
  IF Noted(c.W, u) /\ Len(c.S) > 0 THEN [c EXCEPT !.W[u].noop = TRUE] ELSE c

\* DELETE /sessions/{username_full}
close_session(t, u) ==
  LET c       == Ctx(t)
      sid     == Get(sessions, u)
      targets == <<[key |-> u, sid |-> sid]>>
  IN /\ FirstFree(tasks, t)
     /\ Commit(IF sid = None THEN NotFound(c, u)
               ELSE IF busy(sess, targets) THEN Refused(c, u)
               ELSE close_targets([c EXCEPT !.T.kind = "close", !.T.todo = targets]))
     /\ UNCHANGED <<now, jan, env, cap>>

\* POST /profiles/delete: every session whose username_safe matches
delete_profile(t, u, force) ==
  LET c       == Ctx(t)
      targets == SelectSeq(sessions,
                   LAMBDA e : to_safe_name(sess[e.sid].username_full) = to_safe_name(u))
  IN /\ FirstFree(tasks, t)
     /\ Commit(IF busy(sess, targets) /\ ~force
               THEN Refused(c, u)                      \* 400 session_is_busy
               ELSE close_targets([c EXCEPT !.T.kind = "delete", !.T.todo = targets]))
     /\ UNCHANGED <<now, jan, env, cap>>

\* a closer's `await self.fb.close()` returned
CloseDone(t) ==
  LET c == Ctx(t) IN
  /\ tasks[t].pc = "cl_close"
  /\ Commit(close_targets([closed_now([c EXCEPT !.F[c.T.h].st = "closed", !.F[c.T.h]._page = "other"], c.T.s)
                             EXCEPT !.R = Pop(@, c.T.key)]))
  /\ UNCHANGED <<now, jan, env, cap>>

\* ---------------------------------------------------------------- janitor
Janitor == [IdleTask EXCEPT !.kind = "janitor", !.pc = "sleep"]

\* a janitor that does not look at the lock
locked_ignored(x) == FALSE

\* sess.lock.locked() as the janitor reads it
locked(x) == x.locked

\* a janitor for which no session is ever idle long enough
idle_expired_never(x, t) == FALSE

\* first pass: `idle > self.idle_timeout_sec and not sess.lock.locked()`
idle_expired(x, t) == (t - x.last_used) > env.API_IDLE_TIMEOUT_SEC /\ ~locked(x)

\* first pass: the idle window in which a sink is triggered, and the
\* _sink_running guard
sink_due(x, F, t) ==
  /\ (t - x.last_used) >= env.SINK_IDLE_SEC
  /\ (t - x.last_used) < env.API_IDLE_TIMEOUT_SEC
  /\ x.fb # None
  /\ ~F[x.fb]._sink_running

\* second pass: `if sess and not sess.closed and not sess.lock.locked()`
may_close(x) == ~x.closed /\ ~locked(x)

\* second pass of janitor_loop over to_close, up to the next suspension
RECURSIVE janitor_close(_)
janitor_close(c) ==
  IF c.T.todo = <<>> THEN [c EXCEPT !.T = Janitor]        \* await asyncio.sleep
  ELSE LET k    == Head(c.T.todo)
           sid  == Get(c.R, k)
           rest == [c EXCEPT !.T.todo = Tail(@)]
       IN IF sid # None /\ may_close(c.S[sid])
          THEN IF c.S[sid].fb # None
               THEN [rest EXCEPT !.T.s = sid, !.T.h = c.S[sid].fb, !.T.key = k,
                                 !.T.pc = "closing"]       \* await sess.close()
               ELSE janitor_close([closed_now(rest, sid) EXCEPT !.R = Pop(@, k)])
          ELSE IF sid # None /\ ~c.S[sid].closed
               \* history: left alone by the second pass with the lock held
               THEN janitor_close([rest EXCEPT !.H[sid].spared = @ \cup {"second"}])
               ELSE janitor_close(rest)

\* the registry keys, in dict order
Keys(R) == [i \in 1..Len(R) |-> R[i].key]

JanitorCtx == [R |-> sessions, S |-> sess, F |-> fbs, H |-> hist, T |-> jan,
               N |-> <<>>, id |-> 0, W |-> wh]

CommitJanitor(c) ==
  LET g == Collect(c.R, c.S, c.F, c.H, Spawn(tasks, c.N), c.T) IN
  /\ Len(c.N) <= Cardinality(FreeSlots(tasks))
  /\ sessions' = c.R
  /\ sess' = g.S
  /\ fbs' = g.F
  /\ hist' = g.H
  /\ wh' = c.W
  /\ jan' = c.T
  /\ tasks' = Spawn(tasks, c.N)

\* one round of janitor_loop from waking up to its next suspension
JanitorTick ==
  LET to_close == SelectSeq(Keys(sessions), LAMBDA k :
                    LET x == sess[Get(sessions, k)] IN x.closed \/ idle_expired(x, now))
      sinks    == SelectSeq(Keys(sessions), LAMBDA k :
                    LET x == sess[Get(sessions, k)] IN ~x.closed /\ sink_due(x, fbs, now))
      spawned  == [i \in 1..Len(sinks) |-> SinkTask(sinks[i])]
      \* history: the sessions this round found idle beyond the timeout
      \* with the lock held
      seen     == [sid \in 1..Len(sess) |->
                    IF /\ \E i \in 1..Len(sessions) : sessions[i].sid = sid
                       /\ ~sess[sid].closed /\ sess[sid].locked
                       /\ (now - sess[sid].last_used) > env.API_IDLE_TIMEOUT_SEC
                    THEN [hist[sid] EXCEPT !.spared = @ \cup {"first"}]
                    ELSE hist[sid]]
  IN /\ jan.pc = "sleep"
     /\ CommitJanitor(janitor_close([JanitorCtx EXCEPT !.T.todo = to_close,
                                                       !.N = spawned, !.H = seen]))
     /\ UNCHANGED <<now, env, cap>>

\* the janitor's `await sess.close()` returned: pop, then the rest of to_close
JanitorCloseDone ==
  LET c == JanitorCtx IN
  /\ jan.pc = "closing"
  /\ CommitJanitor(janitor_close([closed_now([c EXCEPT !.F[c.T.h].st = "closed", !.F[c.T.h]._page = "other"], c.T.s)
                                    EXCEPT !.R = Pop(@, c.T.key)]))
  /\ UNCHANGED <<now, env, cap>>

\* --------------------------------------------------------------- shutdown
\* the coroutine SessionManager.stop, run by the lifespan at shutdown
StopTask == [IdleTask EXCEPT !.kind = "stop", !.pc = "st_jan"]

Stopping == \E t \in DOMAIN tasks : tasks[t].kind = "stop"

\* stop up to its first suspension: _stop_evt.set(); _janitor_task.cancel();
\* await self._janitor_task.  The janitor gets CancelledError when it next runs.
StopBegin(t) ==
  /\ FirstFree(tasks, t)
  /\ ~Stopping
  /\ jan.pc \in {"sleep", "closing"}
  /\ tasks' = [tasks EXCEPT ![t] = StopTask]
  /\ jan' = [jan EXCEPT !.pc = IF @ = "sleep" THEN "cancel_sleep" ELSE "cancel_closing"]
  /\ UNCHANGED <<sessions, sess, fbs, now, env, cap, hist, wh>>

\* janitor_loop is resumed with CancelledError and ends.  Out of
\* asyncio.sleep nothing else happens.  Out of `await sess.close()` the
\* error passes through FBScrape.close, which is abandoned where it was
\* (done: the browser was already down), and through UserSession.close,
\* whose finally sets fb = None and closed = True; the pop is not reached.
JanitorCancelled(done) ==
  LET c  == JanitorCtx
      c1 == IF jan.pc = "cancel_closing"
            THEN closed_now([c EXCEPT !.F[c.T.h].st = IF done THEN "closed" ELSE @,
                              !.F[c.T.h]._page = IF done THEN "other" ELSE @],
                            c.T.s)
            ELSE c
  IN /\ jan.pc \in {"cancel_sleep", "cancel_closing"}
     /\ jan.pc = "cancel_sleep" => done
     /\ CommitJanitor([c1 EXCEPT !.T = [Janitor EXCEPT !.pc = "dead"]])
     /\ UNCHANGED <<now, env, cap>>

\* stop: `for sess in list(self.sessions.values()): await sess.close()`, up
\* to the next suspension, then self.sessions.clear()
RECURSIVE stop_targets(_)
stop_targets(c) ==
  IF c.T.todo = <<>>
  THEN [c EXCEPT !.R = <<>>, !.T = [StopTask EXCEPT !.pc = "stopped"]]
  ELSE LET e    == Head(c.T.todo)
           x    == c.S[e.sid]
           rest == [c EXCEPT !.T.todo = Tail(@)]
       IN IF x.closed THEN stop_targets(rest)
          ELSE IF x.fb # None
               THEN [rest EXCEPT !.T.s = e.sid, !.T.h = x.fb, !.T.pc = "st_close"]
               ELSE stop_targets(closed_now(rest, e.sid))

\* stop: the awaited janitor task has ended; the sessions are listed
StopJanitorDone(t) ==
  /\ tasks[t].pc = "st_jan"
  /\ jan.pc = "dead"
  /\ Commit(stop_targets([Ctx(t) EXCEPT !.T.todo = sessions]))
  /\ UNCHANGED <<now, jan, env, cap>>

\* stop: `await sess.close()` returned
StopCloseDone(t) ==
  LET c == Ctx(t) IN
  /\ tasks[t].pc = "st_close"
  /\ Commit(stop_targets(closed_now([c EXCEPT !.F[c.T.h].st = "closed", !.F[c.T.h]._page = "other"], c.T.s)))
  /\ UNCHANGED <<now, jan, env, cap>>

\* time.monotonic() advances
Tick ==
  /\ now < cap.time
  /\ now' = now + 1
  /\ UNCHANGED <<sessions, sess, fbs, tasks, jan, env, cap, hist, wh>>

\* ---------------------------------------------------------- specifications
Env(policy, n, idle_timeout, sink_idle, hits) ==
  [RECHROME_POLICY |-> policy, RECHROME_EVERY_N |-> n,
   API_IDLE_TIMEOUT_SEC |-> idle_timeout,
   SINK_IDLE_SEC |-> sink_idle, SINK_COOLDOWN_SEC |-> SINK_COOLDOWN_SEC,
   SINK_HITS_BEFORE_TRIGGER |-> hits]

Caps(us, nt, ns, nf, nc, tm) ==
  [users |-> us, tasks |-> nt, sess |-> ns, fb |-> nf, count |-> nc, time |-> tm,
   ledger |-> FALSE]

\* the same caps with the ledgers of the identities kept
Kept(caps) == [caps EXCEPT !.ledger = TRUE]

InitState ==
  /\ sessions = <<>>
  /\ sess = <<>>
  /\ fbs = <<>>
  /\ hist = <<>>
  /\ now = 1
  /\ tasks = [i \in 1..cap.tasks |-> IdleTask]
  /\ jan = Janitor
  /\ wh = [u \in IF cap.ledger THEN cap.users ELSE {} |-> NoLedger]

\* Requests, the janitor and explicit closes, on a deployment whose sink
\* triggers are configured out of reach.  No request asks for force=true:
\* nothing here closes a session on purpose while its lock is held.
Init ==
  /\ cap = Caps({<<"a">>}, MaxTasks, MaxSess, MaxFb, MaxCount, MaxTime)
  /\ env \in {Env(p, 0, 1, SinkOff, SinkOff) : p \in {"never", "before_each"}}
  /\ InitState

Next ==
  \/ \E t \in DOMAIN tasks, u \in cap.users : Submit(t, u)
  \/ \E t \in DOMAIN tasks : Resume(t)
  \/ \E t \in DOMAIN tasks : RbCloseDone(t)
  \/ \E t \in DOMAIN tasks, ok \in BOOLEAN : RbInitDone(t, ok)
  \/ \E t \in DOMAIN tasks, ok \in BOOLEAN : EfInitDone(t, ok)
  \/ \E t \in DOMAIN tasks, ok \in BOOLEAN : ScrapeDone(t, ok)
  \/ \E t \in DOMAIN tasks, u \in cap.users : close_session(t, u)
  \/ \E t \in DOMAIN tasks, u \in cap.users : delete_profile(t, u, FALSE)
  \/ \E t \in DOMAIN tasks : CloseDone(t)
  \/ JanitorTick
  \/ JanitorCloseDone
  \/ Tick

Spec == Init /\ [][Next]_vars

\* The same with the sink triggers of the janitor and of the hit counter on.
InitSink ==
  /\ cap = Caps({<<"a">>}, SinkMaxTasks, SinkMaxSess, SinkMaxFb, SinkMaxCount, SinkMaxTime)
  /\ env = Env("never", 0, API_IDLE_TIMEOUT_SEC, SINK_IDLE_SEC, SINK_HITS_BEFORE_TRIGGER)
  /\ InitState

NextSink ==
  \/ Next
  \/ \E t \in DOMAIN tasks : SinkStart(t)
  \/ \E t \in DOMAIN tasks, ok \in BOOLEAN : SinkInitDone(t, ok)
  \/ \E t \in DOMAIN tasks, ok \in BOOLEAN : SinkRunDone(t, ok)
  \/ \E t \in DOMAIN tasks : SinkFinDone(t)

SpecSink == InitSink /\ [][NextSink]_vars

\* Scrape requests of two identities and the janitor, nothing else closing.
InitJanitor ==
  /\ cap = Caps(Users, JanMaxTasks, JanMaxSess, JanMaxFb, JanMaxCount, JanMaxTime)
  /\ env = Env("never", 0, 1, SinkOff, SinkOff)
  /\ InitState

NextJanitor ==
  \/ \E t \in DOMAIN tasks, u \in cap.users : Submit(t, u)
  \/ \E t \in DOMAIN tasks : Resume(t)
  \/ \E t \in DOMAIN tasks, ok \in BOOLEAN : EfInitDone(t, ok)
  \/ \E t \in DOMAIN tasks, ok \in BOOLEAN : ScrapeDone(t, ok)
  \/ JanitorTick
  \/ JanitorCloseDone
  \/ Tick

SpecJanitor == InitJanitor /\ [][NextJanitor]_vars

\* Scrape requests of one identity and the janitor, with the janitor task
\* scheduled fairly: the event loop runs it again after each asyncio.sleep
\* and after each awaited close.
InitFair ==
  /\ cap = Caps({<<"a">>}, FairMaxTasks, FairMaxSess, FairMaxFb, FairMaxCount, FairMaxTime)
  /\ env = Env("never", 0, 1, SinkOff, SinkOff)
  /\ InitState

SpecJanitorFair ==
  /\ InitFair /\ [][NextJanitor]_vars
  /\ WF_vars(JanitorTick) /\ WF_vars(JanitorCloseDone)

\* Scrape requests of one identity alone, under every recycle policy, long
\* enough for nine jobs on one session; the session is never closed.
InitPolicy ==
  /\ cap = Caps({<<"a">>}, PolMaxTasks, 1, PolMaxFb, PolMaxCount, 1)
  /\ env \in {Env(p, n, API_IDLE_TIMEOUT_SEC, SinkOff, SinkOff) : p \in Policies, n \in EveryNs}
  /\ InitState

NextPolicy ==
  \/ \E t \in DOMAIN tasks, u \in cap.users : Submit(t, u)
  \/ \E t \in DOMAIN tasks : RbCloseDone(t)
  \/ \E t \in DOMAIN tasks, ok \in BOOLEAN : RbInitDone(t, ok)
  \/ \E t \in DOMAIN tasks, ok \in BOOLEAN : EfInitDone(t, ok)
  \/ \E t \in DOMAIN tasks, ok \in BOOLEAN : ScrapeDone(t, ok)

SpecPolicy == InitPolicy /\ [][NextPolicy]_vars

\* Scrape requests of two raw identities with one safe name, no closing.
InitUsers ==
  /\ cap = Caps(Users, UsrMaxTasks, UsrMaxSess, UsrMaxFb, UsrMaxCount, 1)
  /\ env = Env("never", 0, API_IDLE_TIMEOUT_SEC, SinkOff, SinkOff)
  /\ InitState

NextUsers ==
  \/ \E t \in DOMAIN tasks, u \in cap.users : Submit(t, u)
  \/ \E t \in DOMAIN tasks : Resume(t)
  \/ \E t \in DOMAIN tasks, ok \in BOOLEAN : EfInitDone(t, ok)
  \/ \E t \in DOMAIN tasks, ok \in BOOLEAN : ScrapeDone(t, ok)

SpecUsers == InitUsers /\ [][NextUsers]_vars

\* The jobs of every synchronous endpoint on the one session of one
\* identity, with the hit-count sink trigger on and the clock running; the
\* session is never closed.
InitJobs ==
  /\ cap = Caps({<<"a">>}, JobMaxTasks, JobMaxSess, JobMaxFb, JobMaxCount, JobMaxTime)
  /\ env \in {Env(p, 0, API_IDLE_TIMEOUT_SEC, SinkOff, SINK_HITS_BEFORE_TRIGGER) :
                p \in {"never", "before_each"}}
  /\ InitState

NextJobs ==
  \/ \E t \in DOMAIN tasks, u \in cap.users : Submit(t, u)
  \/ \E t \in DOMAIN tasks, u \in cap.users : create_profile(t, u)
  \/ \E t \in DOMAIN tasks, u \in cap.users : random_scrape(t, u)
  \/ \E t \in DOMAIN tasks : Resume(t)
  \/ \E t \in DOMAIN tasks : RbCloseDone(t)
  \/ \E t \in DOMAIN tasks, ok \in BOOLEAN : RbInitDone(t, ok)
  \/ \E t \in DOMAIN tasks, ok \in BOOLEAN : EfInitDone(t, ok)
  \/ \E t \in DOMAIN tasks, ok \in BOOLEAN : ScrapeDone(t, ok)
  \/ \E t \in DOMAIN tasks, ok \in BOOLEAN : LoginDone(t, ok)
  \/ \E t \in DOMAIN tasks : SinkStart(t)
  \/ \E t \in DOMAIN tasks, ok \in BOOLEAN : SinkInitDone(t, ok)
  \/ \E t \in DOMAIN tasks, ok \in BOOLEAN : SinkRunDone(t, ok)
  \/ \E t \in DOMAIN tasks : SinkFinDone(t)
  \/ Tick

SpecJobs == InitJobs /\ [][NextJobs]_vars

\* Webhook submissions and synchronous scrape requests of one identity with
\* explicit closes of its session; what the submissions were answered is
\* kept on record.
InitAsync ==
  /\ cap = Kept(Caps({<<"a">>}, AsyMaxTasks, AsyMaxSess, AsyMaxFb, AsyMaxCount, 1))
  /\ env = Env("never", 0, API_IDLE_TIMEOUT_SEC, SinkOff, SinkOff)
  /\ InitState

NextAsync ==
  \/ \E t \in DOMAIN tasks, u \in cap.users : scrape_posts_webhook(t, u)
  \/ \E t \in DOMAIN tasks : WebhookStart(t)
  \/ \E t \in DOMAIN tasks, u \in cap.users : Submit(t, u)
  \/ \E t \in DOMAIN tasks : Resume(t)
  \/ \E t \in DOMAIN tasks, ok \in BOOLEAN : EfInitDone(t, ok)
  \/ \E t \in DOMAIN tasks, ok \in BOOLEAN : ScrapeDone(t, ok)
  \/ \E t \in DOMAIN tasks : WebhookPosted(t)
  \/ \E t \in DOMAIN tasks, u \in cap.users : close_session(t, u)
  \/ \E t \in DOMAIN tasks : CloseDone(t)

SpecAsync == InitAsync /\ [][NextAsync]_vars

\* Scrape requests of one identity against close_session and delete_profile
\* without force; what the closers were answered is kept on record.
InitClose ==
  /\ cap = Kept(Caps({<<"a">>}, ClsMaxTasks, ClsMaxSess, ClsMaxFb, ClsMaxCount, 1))
  /\ env = Env("never", 0, API_IDLE_TIMEOUT_SEC, SinkOff, SinkOff)
  /\ InitState

NextClose ==
  \/ \E t \in DOMAIN tasks, u \in cap.users : Submit(t, u)
  \/ \E t \in DOMAIN tasks : Resume(t)
  \/ \E t \in DOMAIN tasks, ok \in BOOLEAN : EfInitDone(t, ok)
  \/ \E t \in DOMAIN tasks, ok \in BOOLEAN : ScrapeDone(t, ok)
  \/ \E t \in DOMAIN tasks, u \in cap.users : close_session(t, u)
  \/ \E t \in DOMAIN tasks, u \in cap.users : delete_profile(t, u, FALSE)
  \/ \E t \in DOMAIN tasks : CloseDone(t)

SpecClose == InitClose /\ [][NextClose]_vars

\* Shutdown.  Webhook submissions of two identities and their background
\* jobs, then SessionManager.stop, all before any session has been idle for
\* long: the janitor is asleep when stop cancels it.  The server runs the
\* lifespan shutdown after it has stopped serving, so no request arrives
\* once stop has begun; the coroutines given to create_task before go on
\* running.
InitStop ==
  /\ cap = Caps(Users, StopMaxTasks, StopMaxSess, StopMaxFb, StopMaxCount, 1)
  /\ env = Env("never", 0, API_IDLE_TIMEOUT_SEC, SinkOff, SinkOff)
  /\ InitState

NextStop ==
  \/ \E t \in DOMAIN tasks, u \in cap.users : ~Stopping /\ scrape_posts_webhook(t, u)
  \/ \E t \in DOMAIN tasks : WebhookStart(t)
  \/ \E t \in DOMAIN tasks : Resume(t)
  \/ \E t \in DOMAIN tasks, ok \in BOOLEAN : EfInitDone(t, ok)
  \/ \E t \in DOMAIN tasks, ok \in BOOLEAN : ScrapeDone(t, ok)
  \/ \E t \in DOMAIN tasks : WebhookPosted(t)
  \/ \E t \in DOMAIN tasks : StopBegin(t)
  \/ \E done \in BOOLEAN : JanitorCancelled(done)
  \/ \E t \in DOMAIN tasks : StopJanitorDone(t)
  \/ \E t \in DOMAIN tasks : StopCloseDone(t)

SpecStop == InitStop /\ [][NextStop]_vars

\* Webhook jobs of one identity with POST /sessions/close, where every
\* submission finds the coroutine of the one before already started: the
\* event loop runs the coroutines given to create_task in the order of the
\* calls, so the order of the first steps is the order of the submissions.
Starting == \E t \in DOMAIN tasks : tasks[t].pc = "start"

InitOrder ==
  /\ cap = Caps({<<"a">>}, OrdMaxTasks, OrdMaxSess, OrdMaxFb, OrdMaxCount, 1)
  /\ env = Env("never", 0, API_IDLE_TIMEOUT_SEC, SinkOff, SinkOff)
  /\ InitState

NextOrder ==
  \/ \E t \in DOMAIN tasks, u \in cap.users : ~Starting /\ scrape_posts_webhook(t, u)
  \/ \E t \in DOMAIN tasks : WebhookStart(t)
  \/ \E t \in DOMAIN tasks : Resume(t)
  \/ \E t \in DOMAIN tasks, ok \in BOOLEAN : EfInitDone(t, ok)
  \/ \E t \in DOMAIN tasks, ok \in BOOLEAN : ScrapeDone(t, ok)
  \/ \E t \in DOMAIN tasks : WebhookPosted(t)
  \/ \E t \in DOMAIN tasks, u \in cap.users : ~Starting /\ close_session(t, u)
  \/ \E t \in DOMAIN tasks : CloseDone(t)

SpecOrder == InitOrder /\ [][NextOrder]_vars

\* The queue at one session lock under a fair event loop: scrape jobs of
\* one identity and the sink jobs the janitor triggers, on a deployment
\* whose idle timeout is out of reach, so that nothing is closed.  Every
\* coroutine that can run does run, and every awaited operation of a job
\* returns or raises.  A scrape is accepted only while the counters of the
\* session leave room for it to run.
Waiting(T) == T.kind \in JobKinds /\ T.pc \in {"start", "wait"}

Room(u) ==
  LET sid  == Get(sessions, u)
      used == IF sid = None THEN 0 ELSE hist[sid].fg
      due  == Cardinality({t \in DOMAIN tasks :
                 tasks[t].key = u /\ tasks[t].kind # "sink" /\ Waiting(tasks[t])})
  IN used + due < cap.count

JobStep(t) ==
  \/ Resume(t)
  \/ SinkStart(t)
  \/ \E ok \in BOOLEAN : EfInitDone(t, ok)
  \/ \E ok \in BOOLEAN : ScrapeDone(t, ok)
  \/ \E ok \in BOOLEAN : SinkInitDone(t, ok)
  \/ \E ok \in BOOLEAN : SinkRunDone(t, ok)
  \/ SinkFinDone(t)

InitGate ==
  /\ cap = Caps({<<"a">>}, GateMaxTasks, GateMaxSess, GateMaxFb, GateMaxCount, GateMaxTime)
  /\ env = Env("never", 0, SinkOff, SINK_IDLE_SEC, SinkOff)
  /\ InitState

NextGate ==
  \/ \E t \in DOMAIN tasks, u \in cap.users : Room(u) /\ Submit(t, u)
  \/ \E t \in DOMAIN tasks : Resume(t)
  \/ \E t \in DOMAIN tasks : SinkStart(t)
  \/ \E t \in DOMAIN tasks, ok \in BOOLEAN : EfInitDone(t, ok)
  \/ \E t \in DOMAIN tasks, ok \in BOOLEAN : ScrapeDone(t, ok)
  \/ \E t \in DOMAIN tasks, ok \in BOOLEAN : SinkInitDone(t, ok)
  \/ \E t \in DOMAIN tasks, ok \in BOOLEAN : SinkRunDone(t, ok)
  \/ \E t \in DOMAIN tasks : SinkFinDone(t)
  \/ JanitorTick
  \/ Tick

\* the same queue with no assumption on the scheduling
SpecGate == InitGate /\ [][NextGate]_vars

SpecGateFair ==
  /\ InitGate /\ [][NextGate]_vars
  /\ \A t \in 1..GateMaxTasks : WF_vars(JobStep(t))

\* The task of a close request is cancelled while it awaits sess.close():
\* CancelledError is not an Exception, so it passes the except clause of
\* UserSession.close; the finally clause sets fb = None and closed = True;
\* the pop after the await is not reached.  done: whether the browser had
\* already gone down when the cancellation arrived.
CloseCancelled(t, done) ==
  LET c == Ctx(t) IN
  /\ tasks[t].kind \in {"close", "delete"} /\ tasks[t].pc = "cl_close"
  /\ Commit([closed_now([c EXCEPT !.F[c.T.h].st = IF done THEN "closed" ELSE @,
                              !.F[c.T.h]._page = IF done THEN "other" ELSE @],
                        c.T.s)
               EXCEPT !.T = IdleTask])
  /\ UNCHANGED <<now, jan, env, cap>>

\* Scrape jobs, close requests that may be cancelled, and the janitor.
InitCancel ==
  /\ cap = Caps({<<"a">>}, CanMaxTasks, CanMaxSess, CanMaxFb, CanMaxCount, CanMaxTime)
  /\ env = Env("never", 0, 1, SinkOff, SinkOff)
  /\ InitState

NextCancel ==
  \/ \E t \in DOMAIN tasks, u \in cap.users : Submit(t, u)
  \/ \E t \in DOMAIN tasks : Resume(t)
  \/ \E t \in DOMAIN tasks, ok \in BOOLEAN : EfInitDone(t, ok)
  \/ \E t \in DOMAIN tasks, ok \in BOOLEAN : ScrapeDone(t, ok)
  \/ \E t \in DOMAIN tasks, u \in cap.users : close_session(t, u)
  \/ \E t \in DOMAIN tasks : CloseDone(t)
  \/ \E t \in DOMAIN tasks, done \in BOOLEAN : CloseCancelled(t, done)
  \/ JanitorTick
  \/ JanitorCloseDone
  \/ Tick

SpecCancel == InitCancel /\ [][NextCancel]_vars

\* ------------------------------------------------------------- run_task
\* PostScrape.run_task over a list of groups.  Text is modelled as a
\* sequence of pieces, str(e) as the pieces of the message, and
\* `"FB_SESSION_LOST" in str(e)` as the search for the marker among them.
\* A group URL is what the request gave, less scheme and host prefix.
Marker == "FB_SESSION_LOST"

Urls == { <<"facebook.com/groups/", "g1">>, <<"facebook.com/groups/", Marker>> }

\* what can happen to one group: posts were read; neither navigation
\* strategy arrived; is_logged_in() turned False; a call raised on its own
Outcomes == {"posts", "no_nav", "logged_out", "raised"}

\* str(e) of the exception the loop body ends with
Message(out, g_url) ==
  IF out = "no_nav" THEN <<"Not Complete: cannot navigate to ">> \o g_url
  ELSE IF out = "logged_out" THEN <<Marker, ": session lost while working">>
  ELSE <<"TimeoutError">>

\* `"FB_SESSION_LOST" in str(e)`
session_lost(out, g_url) ==
  \E i \in 1..Len(Message(out, g_url)) : Message(out, g_url)[i] = Marker

\* scrape_posts._job calls run_task(group=gs); the initial checks passed
\* and the loop is at its first group
RunTask(t, gs) ==
  /\ tasks[t].pc = "idle"
  /\ tasks' = [tasks EXCEPT ![t] = [IdleTask EXCEPT !.kind = "scrape",
                                      !.pc = "rt_group", !.groups = gs]]
  /\ UNCHANGED <<sessions, sess, fbs, now, jan, env, cap, hist, wh>>

\* one round of the loop, for the first group left: the row is appended
\* (posts, or the empty row of the except clause); a session-lost error is
\* re-raised, and _job turns it into the 401 answer; after the last group
\* run_task returns data.  The task stays as it ended.
GroupDone(t, out) ==
  LET T    == tasks[t]
      g    == Head(T.groups)
      row  == IF out = "posts" THEN <<g, "posts">> ELSE <<g, "none">>
      T1   == [T EXCEPT !.data = Append(@, row), !.groups = Tail(@)]
  IN /\ T.pc = "rt_group"
     /\ tasks' = [tasks EXCEPT ![t] =
                    IF out # "posts" /\ session_lost(out, g)
                    THEN [T EXCEPT !.data = Append(@, row), !.pc = "rt_lost"]
                    ELSE IF T1.groups = <<>> THEN [T1 EXCEPT !.pc = "rt_returned"]
                    ELSE T1]
     /\ UNCHANGED <<sessions, sess, fbs, now, jan, env, cap, hist, wh>>

Batches == UNION {[1..n -> Urls] : n \in 1..MaxGroups}

InitBatch ==
  /\ cap = Caps({<<"a">>}, 1, 1, 1, 1, 1)
  /\ env = Env("never", 0, API_IDLE_TIMEOUT_SEC, SinkOff, SinkOff)
  /\ InitState

NextBatch ==
  \/ \E t \in DOMAIN tasks, gs \in Batches : RunTask(t, gs)
  \/ \E t \in DOMAIN tasks, out \in Outcomes : GroupDone(t, out)

SpecBatch == InitBatch /\ [][NextBatch]_vars

\* Every kind of request that reaches a session, and the janitor, for one
\* identity: scrape jobs submitted directly and through the webhook
\* endpoint, close and delete requests.
InitOpen ==
  /\ cap = Caps({<<"a">>}, OpnMaxTasks, OpnMaxSess, OpnMaxFb, OpnMaxCount, OpnMaxTime)
  /\ env = Env("never", 0, 1, SinkOff, SinkOff)
  /\ InitState

NextOpen ==
  \/ \E t \in DOMAIN tasks, u \in cap.users : Submit(t, u)
  \/ \E t \in DOMAIN tasks, u \in cap.users : scrape_posts_webhook(t, u)
  \/ \E t \in DOMAIN tasks : WebhookStart(t)
  \/ \E t \in DOMAIN tasks : Resume(t)
  \/ \E t \in DOMAIN tasks, ok \in BOOLEAN : EfInitDone(t, ok)
  \/ \E t \in DOMAIN tasks, ok \in BOOLEAN : ScrapeDone(t, ok)
  \/ \E t \in DOMAIN tasks : WebhookPosted(t)
  \/ \E t \in DOMAIN tasks, u \in cap.users : close_session(t, u)
  \/ \E t \in DOMAIN tasks, u \in cap.users : delete_profile(t, u, FALSE)
  \/ \E t \in DOMAIN tasks : CloseDone(t)
  \/ JanitorTick
  \/ JanitorCloseDone
  \/ Tick

SpecOpen == InitOpen /\ [][NextOpen]_vars

\* ------------------------------------------------------------------ claims
\* the awaits a job is suspended at while it executes its body under the lock
BodyPcs == {"rb_close", "rb_init", "ef_init", "scrape", "login", "wh_post",
            "sink_init", "sink_run", "sink_fin"}

InBody(T) == T.pc \in BodyPcs

\* C1: for any identity at most one job body is executing at any time.
C1_OneBodyPerIdentity ==
  \A t1 \in DOMAIN tasks, t2 \in DOMAIN tasks :
    (t1 # t2 /\ InBody(tasks[t1]) /\ InBody(tasks[t2]))
      => tasks[t1].key # tasks[t2].key

\* what the janitor leaves alone of session sid in a step
Untouched(sid) ==
  /\ sess'[sid].closed = sess[sid].closed
  /\ sess'[sid].fb = sess[sid].fb
  /\ sess[sid].fb # None => fbs'[sess[sid].fb].st = fbs[sess[sid].fb].st
  /\ \A k \in cap.users : Get(sessions, k) = sid => Get(sessions', k) = sid

\* the sessions the janitor looks up and evaluates in its next stretch: all
\* that are mapped when it wakes up, those of the keys still in to_close
\* when its close returns
Evaluated(sid) ==
  \E k \in cap.users :
    /\ Get(sessions, k) = sid
    /\ jan.pc = "sleep" \/ \E i \in 1..Len(jan.todo) : jan.todo[i] = k

\* C2: a session whose lock is held when the janitor evaluates it is not
\* closed, keeps its resource and its browser state, stays in the registry,
\* and the janitor does not set out to close it, whatever its idle time.
C2_JanitorSparesLocked ==
  [][(JanitorTick \/ JanitorCloseDone) =>
       \A sid \in 1..Len(sess) :
         (sess[sid].locked /\ Evaluated(sid))
           => Untouched(sid) /\ ~(jan'.pc = "closing" /\ jan'.s = sid)]_vars

\* a janitor round put this session's key in to_close, found the lock held
\* when it came to close it, and the session is still mapped, open, not
\* closed and at work
C2_Witness ==
  \E sid \in 1..Len(sess) :
    /\ "second" \in hist[sid].spared
    /\ sess[sid].locked /\ ~sess[sid].closed
    /\ Get(sessions, sess[sid].username_full) = sid
    /\ sess[sid].fb # None /\ fbs[sess[sid].fb].st = "open"

\* C3: no job is running on a session while the janitor is closing its
\* resource.
C3_NoJobDuringEviction ==
  \A t \in DOMAIN tasks :
    ~(jan.pc = "closing" /\ InBody(tasks[t]) /\ tasks[t].s = jan.s)

\* C4: raw identities with one safe name are mapped to one session, and
\* their jobs never execute at the same time.
C4_SafeNameSharesSession ==
  /\ \A i \in 1..Len(sessions), j \in 1..Len(sessions) :
       to_safe_name(sessions[i].key) = to_safe_name(sessions[j].key)
         => sessions[i].sid = sessions[j].sid
  /\ \A t1 \in DOMAIN tasks, t2 \in DOMAIN tasks :
       (t1 # t2 /\ InBody(tasks[t1]) /\ InBody(tasks[t2]))
         => to_safe_name(tasks[t1].key) # to_safe_name(tasks[t2].key)

\* C5: a closed session has no resource.
C5_ClosedHasNoResource ==
  \A sid \in 1..Len(sess) : sess[sid].closed => sess[sid].fb = None

\* C6: no two different sessions that are not closed exist for one identity.
C6_OneLiveSession ==
  \A s1 \in 1..Len(sess), s2 \in 1..Len(sess) :
    (s1 # s2 /\ sess[s1].username_full = sess[s2].username_full)
      => sess[s1].closed \/ sess[s2].closed

\* C7: a registry entry is removed only when the session it maps to at that
\* moment is closed.
C7_RemoveOnlyClosed ==
  [][\A k \in cap.users :
       (Get(sessions, k) # None /\ Get(sessions', k) = None)
         => sess'[Get(sessions, k)].closed]_vars

\* the jobs 1..n of a session that satisfy P, in order
JobsWhere(n, P(_)) == SelectSeq([k \in 1..n |-> k], P)

\* the job was given a handle that is not the one the session had before it
Replaced(T) == T.h # T.pre

\* C8: under every_n with N > 0 the k-th scrape job on a session recycles
\* before its work iff k mod N = 0: those jobs and no others go through
\* restart_browser and scrape on a replaced handle; with N = 3 nine jobs
\* recycle on jobs 3, 6 and 9.
C8_EveryN ==
  (env.RECHROME_POLICY = "every_n" /\ env.RECHROME_EVERY_N > 0) =>
    /\ \A sid \in 1..Len(sess) :
         /\ hist[sid].rec =
              JobsWhere(hist[sid].n, LAMBDA k : k % env.RECHROME_EVERY_N = 0)
         /\ (env.RECHROME_EVERY_N = 3 /\ hist[sid].n = 9)
              => hist[sid].rec = <<3, 6, 9>>
    /\ \A t \in DOMAIN tasks :
         /\ tasks[t].pc \in {"rb_close", "rb_init"}
              => tasks[t].k % env.RECHROME_EVERY_N = 0
         /\ (tasks[t].pc = "scrape" /\ tasks[t].pre # None)
              => (Replaced(tasks[t]) <=> tasks[t].k % env.RECHROME_EVERY_N = 0)

\* nine jobs done on one session under every_n(3), the ninth scraping on a
\* replaced handle
C8_Witness ==
  /\ env.RECHROME_POLICY = "every_n" /\ env.RECHROME_EVERY_N = 3
  /\ \E t \in DOMAIN tasks :
       /\ tasks[t].pc = "scrape" /\ tasks[t].k = 9
       /\ tasks[t].pre # None /\ Replaced(tasks[t])
       /\ hist[tasks[t].s].rec = <<3, 6, 9>>

\* no job of any session recycled, none is in restart_browser, and a job
\* that found a handle scrapes on it
NoRecycle ==
  /\ \A sid \in 1..Len(sess) : hist[sid].rec = <<>>
  /\ \A t \in DOMAIN tasks :
       /\ tasks[t].pc \notin {"rb_close", "rb_init"}
       /\ (tasks[t].pc = "scrape" /\ tasks[t].pre # None) => ~Replaced(tasks[t])

\* every job of every session recycled, and every scrape is on a replaced
\* handle
AlwaysRecycle ==
  /\ \A sid \in 1..Len(sess) :
       hist[sid].rec = JobsWhere(hist[sid].n, LAMBDA k : TRUE)
  /\ \A t \in DOMAIN tasks :
       /\ tasks[t].pc # "ef_init"
       /\ tasks[t].pc = "scrape" => Replaced(tasks[t])

\* C9: under never no job recycles; under before_each every scrape job
\* recycles before its work; under every_n with N <= 0 and under a policy
\* string that is none of the three no job recycles.
C9_OtherPolicies ==
  /\ env.RECHROME_POLICY = "never" => NoRecycle
  /\ env.RECHROME_POLICY = "before_each" => AlwaysRecycle
  /\ (env.RECHROME_POLICY = "every_n" /\ env.RECHROME_EVERY_N <= 0) => NoRecycle
  /\ env.RECHROME_POLICY \notin {"never", "before_each", "every_n"} => NoRecycle

\* a third job in a row under a policy string that is none of the three,
\* with N = 1, scraping on the handle the session already had
C9_Witness ==
  /\ env.RECHROME_POLICY = "always" /\ env.RECHROME_EVERY_N = 1
  /\ \E t \in DOMAIN tasks :
       /\ tasks[t].pc = "scrape" /\ tasks[t].k = 3
       /\ tasks[t].pre # None /\ tasks[t].h = tasks[t].pre

\* C10: a job whose policy decided to recycle scrapes on a fresh handle that
\* was opened successfully: not on the one from before the recycle, not on
\* one whose opening failed.
C10_ScrapeOnFreshOpen ==
  \A t \in DOMAIN tasks :
    (tasks[t].pc = "scrape" /\ tasks[t].need) =>
      /\ tasks[t].h # None
      /\ Replaced(tasks[t])
      /\ fbs[tasks[t].h].st = "open"

\* C11: the recycle counter of a session equals the number of jobs admitted
\* for it through run_for_user, whatever the endpoint and the outcome of
\* the job, and nothing else moves it.
C11_CounterCountsUserJobs ==
  \A sid \in 1..Len(sess) : sess[sid]._scrape_job_counter = hist[sid].fg

\* C12: the position a webhook submission is answered is one more than the
\* number of webhook jobs of the identity that are queued or running when
\* it comes, the running one counted once, and the status is "running"
\* exactly when there is none.
C12_PositionCountsJobsAhead ==
  \A u \in DOMAIN wh :
    wh[u].pos # 0 =>
      /\ wh[u].pos = wh[u].ahead + 1
      /\ wh[u].status = "running" <=> wh[u].ahead = 0

\* C13: of two successive webhook submissions of an identity between which
\* no job of it finished, the later is answered a greater position and is
\* not answered "running".
C13_PositionsIncrease ==
  \A u \in DOMAIN wh :
    (wh[u].prev # 0 /\ ~wh[u].gap) =>
      wh[u].pos > wh[u].prev /\ wh[u].status # "running"

\* the _webhook_queue_len a submission for u would read now
pending_async(u) ==
  LET sid == Get(sessions, u) IN
  IF sid = None \/ sess[sid].closed THEN 0 ELSE sess[sid]._webhook_queue_len

Outstanding(u) ==
  {t \in DOMAIN tasks : tasks[t].kind = "webhook" /\ tasks[t].key = u}

\* C14: the pending count of an identity is the number of its webhook jobs
\* submitted and not yet finished, it is never negative, and a submission
\* that comes when no job of the identity is under way is answered 1.
C14_PendingCountsOutstanding ==
  \A u \in DOMAIN wh :
    /\ pending_async(u) = Cardinality(Outstanding(u))
    /\ \A sid \in 1..Len(sess) : sess[sid]._webhook_queue_len >= 0
    /\ (wh[u].pos # 0 /\ wh[u].alone) => wh[u].pos = 1

\* C15: a webhook job calls _post_webhook exactly once by the time it
\* finishes, with a success or with a failure payload, and never twice
\* while it runs.
C15_OneCallback ==
  /\ \A u \in DOMAIN wh : \A e \in wh[u].cbs : e[1] = 1
  /\ \A t \in DOMAIN tasks :
       /\ tasks[t].cb <= 1
       /\ tasks[t].pc = "wh_post" => tasks[t].cb = 1

\* webhook jobs have finished after a success payload and after a failure
\* payload, and one whose session was closed while it waited for the lock
\* is posting its failure
C15_Witness ==
  /\ \E u \in DOMAIN wh : {<<1, TRUE>>, <<1, FALSE>>} \subseteq wh[u].cbs
  /\ \E t \in DOMAIN tasks :
       /\ tasks[t].pc = "wh_post" /\ ~tasks[t].ok
       /\ tasks[t].h = None /\ sess[tasks[t].s].closed

\* C16: no sink run starts on a session within SINK_COOLDOWN_SEC of the
\* completion of the last sink run on that session, whether or not the
\* browser was recycled in between.
C16_CooldownAcrossRecycles ==
  \A t \in DOMAIN tasks :
    tasks[t].pc = "sink_run" =>
      LET last == hist[tasks[t].s].warm IN
      last = 0 \/ now - last >= env.SINK_COOLDOWN_SEC

\* C17: every job admitted through run_for_user counts one sink hit, and the
\* count goes back to zero when it reaches SINK_HITS_BEFORE_TRIGGER: after
\* the jobs that have ended on a session its _sink_hits is their number
\* modulo the threshold, and below the threshold.
C17_HitsCountUserJobs ==
  \A sid \in 1..Len(sess) :
    /\ sess[sid]._sink_hits = hist[sid].done % env.SINK_HITS_BEFORE_TRIGGER
    /\ sess[sid]._sink_hits < env.SINK_HITS_BEFORE_TRIGGER

Targets(u) ==
  {i \in 1..Len(sessions) :
     to_safe_name(sess[sessions[i].sid].username_full) = to_safe_name(u)}

\* C19: a close_session or unforced delete_profile request that targets a
\* session whose lock is held is refused and changes nothing: the session,
\* its browser, the registry and the running job stay as they are and no
\* task is left behind to close it later.
C19_BusyRefused ==
  [][\A t \in DOMAIN tasks, u \in cap.users :
       /\ (/\ close_session(t, u)
           /\ Get(sessions, u) # None
           /\ sess[Get(sessions, u)].locked)
            => UNCHANGED <<sessions, sess, fbs, tasks, jan, hist>>
       /\ (/\ delete_profile(t, u, FALSE)
           /\ \E i \in Targets(u) : sess[sessions[i].sid].locked)
            => UNCHANGED <<sessions, sess, fbs, tasks, jan, hist>>
    ]_vars

\* a request was refused and the job that held the lock is still running
\* on the session, open and in the registry
C19_Witness ==
  \E u \in DOMAIN wh :
    /\ wh[u].busy
    /\ Get(sessions, u) # None
    /\ LET x == sess[Get(sessions, u)] IN
       /\ x.locked /\ ~x.closed /\ x.fb # None /\ fbs[x.fb].st = "open"
       /\ \E t \in DOMAIN tasks :
            tasks[t].s = Get(sessions, u) /\ tasks[t].pc = "scrape"

\* C20: closed never goes back to False, no scrape returns its result on a
\* session that is closed, and a session made by an admission is open,
\* with no browser or with one that did not exist before.
C20_ClosedIsTerminal ==
  [][/\ \A sid \in 1..Len(sess) : sess[sid].closed => sess'[sid].closed
     /\ \A t \in DOMAIN tasks :
          (tasks[t].pc = "scrape" /\ ScrapeDone(t, TRUE))
            => ~sess[tasks[t].s].closed
     /\ \A sid \in (Len(sess) + 1)..Len(sess') :
          /\ ~sess'[sid].closed
          /\ sess'[sid].fb # None => sess'[sid].fb > Len(fbs)
    ]_vars

\* session sid is in the registry
Mapped(sid) == \E i \in 1..Len(sessions) : sessions[i].sid = sid

\* session sid is in the registry, open, its lock free and idle for longer
\* than the timeout
Expired(sid) ==
  /\ sid <= Len(sess) /\ Mapped(sid)
  /\ ~sess[sid].closed /\ ~sess[sid].locked
  /\ (now - sess[sid].last_used) > env.API_IDLE_TIMEOUT_SEC

\* session sid is closed, without a browser and out of the registry
Evicted(sid) ==
  /\ sid <= Len(sess) /\ ~Mapped(sid)
  /\ sess[sid].closed /\ sess[sid].fb = None

\* C21: with the janitor scheduled fairly, a session in the registry whose
\* lock is free and that has been idle beyond the timeout is eventually
\* closed, left without browser and removed from the registry, unless a job
\* takes its lock first.
C21_IdleEventuallyEvicted ==
  \A sid \in 1..FairMaxSess :
    Expired(sid) ~> (Evicted(sid) \/ (sid <= Len(sess) /\ sess[sid].locked))

\* a session the janitor evicted, with the browser it had closed
C21_Witness ==
  \E sid \in 1..Len(sess) :
    /\ Evicted(sid)
    /\ \E h \in 1..Len(fbs) : fbs[h].st = "closed"

\* stop returns in this step
StopReturns ==
  \E t \in DOMAIN tasks : tasks[t].pc # "stopped" /\ tasks'[t].pc = "stopped"

\* C22: when SessionManager.stop returns no browser is open, whether its
\* session was in the registry when stop listed the sessions or was made
\* while stop was under way.
C22_StopClosesEveryBrowser ==
  [][StopReturns => \A h \in 1..Len(fbs') : fbs'[h].st # "open"]_vars

\* C23: once stop has begun no coroutine enters run_for_user or
\* run_for_sys, and stop neither starts to close nor closes a session
\* whose lock a job holds.
C23_StopDrains ==
  [][/\ \A t \in DOMAIN tasks :
          ~(Stopping /\ tasks[t].pc = "start" /\ tasks'[t].pc # "start")
     /\ \A t \in DOMAIN tasks :
          (/\ tasks'[t].pc = "st_close"
           /\ tasks[t].pc # "st_close" \/ tasks[t].s # tasks'[t].s)
            => ~sess[tasks'[t].s].locked
     /\ \A sid \in 1..Len(sess) :
          (Stopping /\ ~sess[sid].closed /\ sess'[sid].closed)
            => ~sess[sid].locked
    ]_vars

\* the job of task t ends in this step with its error and leaves its
\* session without a browser
Aborted(t) ==
  /\ tasks'[t].pc \in {"idle", "wh_post"}
  /\ sess'[tasks[t].s].fb = None

\* C24: when _lazy_init fails in ensure_fb or in restart_browser the job
\* ends there with the error, without going on to the scrape, and the
\* session is left with fb = None.
C24_OpenFailureAborts ==
  [][\A t \in DOMAIN tasks :
       /\ (tasks[t].pc = "ef_init" /\ EfInitDone(t, FALSE)) => Aborted(t)
       /\ (tasks[t].pc = "rb_init" /\ RbInitDone(t, FALSE)) => Aborted(t)
    ]_vars

\* task t holds the lock of its session as a job
Holding(T) == T.kind \in JobKinds /\ InBody(T)

\* C25: a job admitted through run_for_user or run_for_sys sets last_used
\* of its session to the current time when it takes the lock and when it
\* releases it (checked while the session is in the registry).
C25_EveryJobTouches ==
  [][\A t \in DOMAIN tasks :
       /\ (~Holding(tasks[t]) /\ Holding(tasks'[t]))
            => sess'[tasks'[t].s].last_used = now
       /\ (/\ Holding(tasks[t]) /\ ~Holding(tasks'[t])
           /\ \E i \in 1..Len(sessions') : sessions'[i].sid = tasks[t].s)
            => sess'[tasks[t].s].last_used = now
    ]_vars

\* the step in which the job of task t raises out of run_for_user /
\* run_for_sys (a webhook job catches its error and posts it instead)
Raised(t) ==
  /\ tasks[t].kind \in JobKinds \ {"webhook"}
  /\ \/ EfInitDone(t, FALSE)
     \/ ScrapeDone(t, FALSE)
     \/ LoginDone(t, FALSE)
     \/ SinkInitDone(t, FALSE)

\* C26: when a job raises, the admission layer releases the session lock
\* and sets last_used to the current time (checked while the session is
\* in the registry); the task ends with the error.
C26_RaiseReleasesAndTouches ==
  [][\A t \in DOMAIN tasks :
       Raised(t) =>
         /\ tasks'[t].pc = "idle"
         /\ ~sess'[tasks[t].s].locked
         /\ (\E i \in 1..Len(sessions') : sessions'[i].sid = tasks[t].s)
              => sess'[tasks[t].s].last_used = now
    ]_vars

\* C27: the jobs of one identity start their work in the order of their
\* admission: a job that was submitted while another job of the identity
\* was already waiting for the lock does not start its work while that
\* job still waits.
C27_NoOvertaking ==
  [][\A t1, t2 \in DOMAIN tasks :
       ~ /\ t1 # t2 /\ tasks[t1].key = tasks[t2].key
         /\ tasks[t1].kind = "webhook" /\ tasks[t2].kind = "webhook"
         /\ tasks[t1].pc = "wait" /\ tasks'[t1].pc = "wait"
         /\ tasks[t2].pc = "start" /\ InBody(tasks'[t2])
    ]_vars

\* C28: under a fair event loop and with every job body terminating, every
\* job that is at a session lock, scrape job or sink job, eventually takes
\* the lock and runs, whatever arrives after it.
C28_NoStarvation ==
  \A t \in 1..GateMaxTasks : Waiting(tasks[t]) ~> ~Waiting(tasks[t])

\* a scrape job that had to wait behind a sink job is running, with a sink
\* job that arrived after it waiting in turn
C28_Witness ==
  \E t1, t2 \in DOMAIN tasks :
    /\ tasks[t1].kind = "scrape" /\ InBody(tasks[t1])
    /\ hist[tasks[t1].s].fg = 2
    /\ tasks[t2].kind = "sink" /\ tasks[t2].pc = "wait"
    /\ now = GateMaxTime

\* the sink coroutines a step creates: the slots that go from free to a
\* sink coroutine about to start
SinkSpawned == {t \in DOMAIN tasks :
                  /\ tasks[t].pc = "idle"
                  /\ tasks'[t].kind = "sink" /\ tasks'[t].pc = "start"}

\* C29: a janitor round creates a sink job for a session only when the
\* session's idle time is in [SINK_IDLE_SEC, API_IDLE_TIMEOUT_SEC), it has
\* a browser handle, and no job holds its lock.
C29_WarmOnlyWhenFree ==
  [][JanitorTick =>
       \A t \in SinkSpawned :
         LET x == sess[Get(sessions, tasks'[t].key)] IN
         /\ (now - x.last_used) >= env.SINK_IDLE_SEC
         /\ (now - x.last_used) < env.API_IDLE_TIMEOUT_SEC
         /\ x.fb # None
         /\ ~x.locked
    ]_vars

\* the sink jobs that wait for or hold the lock of session sid
WarmAt(sid) == {t \in DOMAIN tasks :
                  /\ tasks[t].kind = "sink" /\ tasks[t].s = sid
                  /\ (tasks[t].pc = "wait" \/ InBody(tasks[t]))}

\* C30: where the janitor is the only source of sink jobs, at most one
\* sink job waits for or holds the lock of a session at any time.
C30_OneWarmJobPerSession ==
  \A sid \in 1..Len(sess) : Cardinality(WarmAt(sid)) <= 1

\* the session of task t is in the registry, open or not, as it was
SameSession(t) ==
  LET sid == tasks[t].s IN
  /\ sessions' = sessions
  /\ sess'[sid].closed = sess[sid].closed
  /\ sess'[sid].fb = sess[sid].fb
  /\ jan' = jan

\* C31: a sink job that fails (its browser start raises before the try
\* block, or the run raises and is caught) ends without touching the
\* janitor, the registry or the closed flag of its session, and with the
\* session lock released.
C31_WarmFailureSwallowed ==
  [][\A t \in DOMAIN tasks :
       /\ (tasks[t].kind = "sink" /\ SinkInitDone(t, FALSE))
            => /\ SameSession(t)
               /\ tasks'[t].pc = "idle"
               /\ ~sess'[tasks[t].s].locked
       /\ (tasks[t].kind = "sink" /\ SinkRunDone(t, FALSE))
            => SameSession(t) /\ tasks'[t].pc = "sink_fin"
       /\ (tasks[t].kind = "sink" /\ SinkFinDone(t))
            => /\ SameSession(t)
               /\ tasks'[t].pc = "idle"
               /\ ~sess'[tasks[t].s].locked
    ]_vars

\* a sink job whose run raised is in its finally block: the run branch was
\* taken and no run of the handle has completed; the janitor sleeps
C31_Witness ==
  \E t \in DOMAIN tasks :
    /\ tasks[t].kind = "sink" /\ tasks[t].pc = "sink_fin" /\ tasks[t].ok
    /\ fbs[tasks[t].h]._sink_last_run = 0
    /\ \E i \in 1..Len(sessions) : sessions[i].sid = tasks[t].s
    /\ ~sess[tasks[t].s].closed
    /\ jan.pc = "sleep"

\* the sessions that are in the registry with closed = True
ClosedMapped == {sid \in 1..Len(sess) :
                   sess[sid].closed /\ \E i \in 1..Len(sessions) : sessions[i].sid = sid}

\* C32: whenever the janitor is about to run a round with a closed session
\* in the registry, the round, if it runs to its sleep, ends with that
\* session out of the registry.
C32_ClosedRemovedByTick ==
  (jan.pc = "sleep" /\ ClosedMapped # {}) =>
    ENABLED (/\ JanitorTick
             /\ jan'.pc = "sleep" =>
                   \A sid \in ClosedMapped :
                     ~\E j \in 1..Len(sessions') : sessions'[j].sid = sid)

\* C33: in run_task, a group at which the session is found logged out ends
\* the batch with the session-lost error and the groups after it untried;
\* any other failure of a group adds an empty row for it and the batch
\* goes on with the next group (or returns after the last).
C33_OnlySessionLostAborts ==
  [][\A t \in DOMAIN tasks :
       /\ GroupDone(t, "logged_out")
            => /\ tasks'[t].pc = "rt_lost"
               /\ tasks'[t].groups = tasks[t].groups
       /\ (GroupDone(t, "no_nav") \/ GroupDone(t, "raised"))
            => /\ tasks'[t].pc \in {"rt_group", "rt_returned"}
               /\ tasks'[t].groups = Tail(tasks[t].groups)
               /\ tasks'[t].data = Append(tasks[t].data, <<Head(tasks[t].groups), "none">>)
    ]_vars

\* the sessions that get a browser handle in this step: new ones that
\* have one, and old ones whose fb was None
Opened == {sid \in 1..Len(sess') :
             /\ sess'[sid].fb # None
             /\ sid <= Len(sess) => sess[sid].fb = None}

\* the steps of the janitor and of the requests that run no job
NoJobStep ==
  \/ JanitorTick
  \/ JanitorCloseDone
  \/ \E t \in DOMAIN tasks, u \in cap.users : scrape_posts_webhook(t, u)
  \/ \E t \in DOMAIN tasks, u \in cap.users : close_session(t, u)
  \/ \E t \in DOMAIN tasks, u \in cap.users : delete_profile(t, u, FALSE)
  \/ \E t \in DOMAIN tasks : CloseDone(t)

\* C34: a session gets a browser handle only in a step of a job that
\* holds its lock; the janitor, the webhook endpoint and close / delete
\* requests give no session a handle and start no browser; a session made
\* by a step that admits no job to it has fb = None, its lock free and
\* closed = False.
C34_OpenedOnlyUnderLock ==
  [][/\ \A sid \in Opened :
          /\ sess'[sid].locked
          /\ \E t \in DOMAIN tasks :
                /\ Holding(tasks'[t]) /\ tasks'[t].s = sid
                /\ tasks'[t].h = sess'[sid].fb
     /\ NoJobStep =>
          /\ Opened = {}
          /\ Len(fbs') = Len(fbs)
          /\ \A h \in 1..Len(fbs) : fbs'[h].st = "open" => fbs[h].st = "open"
          /\ \A sid \in (Len(sess) + 1)..Len(sess') :
                sess'[sid].fb = None /\ LockFree(sess'[sid]) /\ ~sess'[sid].closed
    ]_vars

\* a job holds the lock of a session the webhook endpoint created, and
\* the browser it put there has started
C34_Witness ==
  \E t \in DOMAIN tasks :
    /\ tasks[t].kind = "webhook" /\ tasks[t].pc = "scrape"
    /\ sess[tasks[t].s].locked
    /\ sess[tasks[t].s].fb = tasks[t].h
    /\ fbs[tasks[t].h].st = "open"

\* the janitor turns to session sid in this step: it begins to await its
\* close, or closes it on the spot (no browser to close)
StartsClosing(sid) ==
  /\ ~(jan.pc = "closing" /\ jan.s = sid)
  /\ \/ jan'.pc = "closing" /\ jan'.s = sid
     \/ sess'[sid].closed /\ ~sess[sid].closed

\* C35: the janitor turns to a session to close it only when, at that
\* moment, the session has been idle for more than API_IDLE_TIMEOUT_SEC.
C35_ClosedOnlyWhenIdle ==
  [][(JanitorTick \/ JanitorCloseDone) =>
       \A sid \in 1..Len(sess) :
         StartsClosing(sid) =>
           (now - sess[sid].last_used) > env.API_IDLE_TIMEOUT_SEC
    ]_vars

\* ----------------------------------------------------------- warm jobs
\* One identity whose sessions are warmed by the janitor (idle for
\* SINK_IDLE_SEC) and by the hit count of /scrape-posts, and closed by
\* DELETE /sessions; the janitor never finds a session idle for too long.
InitWarm ==
  /\ cap = Caps({<<"a">>}, WrmMaxTasks, WrmMaxSess, WrmMaxFb, WrmMaxCount, WrmMaxTime)
  /\ env = Env("never", 0, SinkOff, SINK_IDLE_SEC, SINK_HITS_BEFORE_TRIGGER)
  /\ InitState

NextWarm ==
  \/ \E t \in DOMAIN tasks, u \in cap.users : Submit(t, u)
  \/ \E t \in DOMAIN tasks : Resume(t)
  \/ \E t \in DOMAIN tasks : SinkStart(t)
  \/ \E t \in DOMAIN tasks, ok \in BOOLEAN : EfInitDone(t, ok)
  \/ \E t \in DOMAIN tasks, ok \in BOOLEAN : ScrapeDone(t, ok)
  \/ \E t \in DOMAIN tasks, ok \in BOOLEAN : SinkInitDone(t, ok)
  \/ \E t \in DOMAIN tasks, ok \in BOOLEAN : SinkRunDone(t, ok)
  \/ \E t \in DOMAIN tasks : SinkFinDone(t)
  \/ \E t \in DOMAIN tasks, u \in cap.users : close_session(t, u)
  \/ \E t \in DOMAIN tasks : CloseDone(t)
  \/ JanitorTick
  \/ Tick

SpecWarm == InitWarm /\ [][NextWarm]_vars

\* a step of the sink coroutine in slot t
SinkStep(t) ==
  /\ tasks[t].kind = "sink"
  /\ \/ SinkStart(t)
     \/ Resume(t)
     \/ \E ok \in BOOLEAN : SinkInitDone(t, ok)
     \/ \E ok \in BOOLEAN : SinkRunDone(t, ok)
     \/ SinkFinDone(t)

\* C36: no step of a warm job changes the registry, makes a session
\* object, or starts a browser.
C36_WarmAddsNothing ==
  [][\A t \in DOMAIN tasks :
       SinkStep(t) =>
         /\ sessions' = sessions
         /\ Len(sess') = Len(sess)
         /\ \A h \in 1..Len(fbs) : fbs'[h].st = "open" => fbs[h].st = "open"
    ]_vars

\* the sink coroutine in slot t was turned away by the cooldown check and
\* is in randomtask's finally block; nothing closed its session meanwhile
Rejected(t) ==
  /\ tasks[t].kind = "sink" /\ tasks[t].pc = "sink_fin" /\ ~tasks[t].ok
  /\ sess[tasks[t].s].fb = tasks[t].h
  /\ \E j \in 1..Len(sessions) : sessions[j].sid = tasks[t].s

\* C37: when a warm attempt that the cooldown check turned away ends, the
\* handle is as it was before the attempt (_sink_last_run, the browser and
\* the page it shows), and so are the counters and the handle of the session.
C37_RejectedChangesNothing ==
  [][\A t \in DOMAIN tasks :
       (Rejected(t) /\ SinkFinDone(t)) =>
         LET h   == tasks[t].h
             sid == tasks[t].s
         IN /\ fbs'[h] = [fbs[h] EXCEPT !._sink_running = FALSE]
            /\ sess'[sid].fb = sess[sid].fb
            /\ sess'[sid]._scrape_job_counter = sess[sid]._scrape_job_counter
            /\ sess'[sid]._sink_hits = sess[sid]._sink_hits
    ]_vars

\* C38: the job whose hit count schedules a sink job ends and releases its
\* lock in that same stretch, and the sink job enters its body only from
\* the start or from the lock's queue, when no other job holds the lock of
\* its session.
C38_TriggerNeverWaits ==
  [][\A t \in DOMAIN tasks :
       /\ ((ScrapeDone(t, TRUE) \/ WebhookPosted(t)) /\ SinkSpawned # {})
            => /\ tasks'[t].pc = "idle"
               /\ ~sess'[tasks[t].s].locked
       /\ (tasks'[t].kind = "sink" /\ ~InBody(tasks[t]) /\ InBody(tasks'[t]))
            => /\ tasks[t].pc \in {"start", "wait"}
               /\ \A j \in DOMAIN tasks :
                    (j # t /\ Holding(tasks[j])) => tasks[j].s # tasks'[t].s
    ]_vars

\* a sink job scheduled by the hit count is at work after the jobs that
\* counted the hits have ended
C38_Witness ==
  \E t \in DOMAIN tasks :
    /\ tasks[t].kind = "sink" /\ tasks[t].pc = "sink_run"
    /\ hist[tasks[t].s].done >= env.SINK_HITS_BEFORE_TRIGGER
    /\ sess[tasks[t].s]._sink_hits = 0

====
